---- MODULE Spec2Model ----
(***************************************************************************)
(* Reservation / inventory core of the car-rental backend:                 *)
(* controllers/bookings.js (createBooking, cancelBooking, updateBooking),   *)
(* models/Booking.js (schema defaults and the pre('save') hook) and         *)
(* models/Car.js (totalCarsAvailable, isAvailable, pricePerDay).            *)
(*                                                                         *)
(* Every handler is an async function.  The code between two awaits runs    *)
(* without interruption (one JavaScript thread); every awaited database     *)
(* call is one atomic read or write of the store.  Each action below is     *)
(* one such segment: the awaited call together with the synchronous code    *)
(* that follows it up to the next await.                                    *)
(*                                                                         *)
(* A loaded document is a private in-memory copy.  document.save() of an    *)
(* existing document writes the paths that were assigned a value different  *)
(* from the loaded one, and no other path (the schemas set versionKey:      *)
(* false, so there is no optimistic-concurrency check).                     *)
(***************************************************************************)
EXTENDS Integers, Sequences, FiniteSets, TLC

\* ---------------------------------------------------------------- bounds
MaxBookings == 2      \* reservations ever created in one behaviour
MaxUnits == 2         \* largest initial totalCarsAvailable of a car
TicksPerDay == 2      \* ticks in the 24 h of oneDay
NProcs == 2           \* request handlers that may be in flight together
MaxCounter == 3       \* requests that release a unit are not started beyond this count

\* ------------------------------------------------------ program constants
InsurancePerDay == 15
AdditionalDriverPerDay == 10

Procs == 1..NProcs
Cars == {"car1", "car2"}
UnknownCar == "car9"
Users == {"u1", "u2"}
Admins == {"admin"}
BookingIds == 1..MaxBookings
UnknownBooking == MaxBookings + 1

validStatuses == {"pending", "confirmed", "cancelled", "completed"}
ActiveStatuses == {"confirmed", "pending"}
\* no placeholder: an absent reason is stored as the empty string
AdminReason_Empty == ""

AdminReason == "Cancelled by admin"

Actor(id) == [id |-> id, role |-> IF id \in Admins THEN "admin" ELSE "user"]
NoActor == [id |-> "", role |-> ""]

VARIABLES
  cars,        \* Car collection: id -> [totalCarsAvailable, isAvailable, pricePerDay]
  bookings,    \* Booking collection: sequence of documents, _id = index
  procs,       \* request handlers: position and local variables
  totalUnits   \* each car's unit count when it had no reservations (never written)

vars == <<cars, bookings, procs, totalUnits>>

\* ------------------------------------------------------------- helpers
Abs(x) == IF x < 0 THEN -x ELSE x
Max(a, b) == IF a >= b THEN a ELSE b
\* Math.ceil(n / d) for n >= 0, d > 0
Ceil(n, d) == (n + d - 1) \div d
oneDay == TicksPerDay

NoCar == [totalCarsAvailable |-> 0, isAvailable |-> FALSE, pricePerDay |-> 0,
          modTotal |-> FALSE, modAvail |-> FALSE]
NoBooking == [bookingStatus |-> "", cancellationReason |-> "",
              modStatus |-> FALSE, modReason |-> FALSE]

IdleProc == [op |-> "idle", pc |-> "idle", actor |-> NoActor,
             carId |-> "", pickupDate |-> 0, dropoffDate |-> 0,
             additionalDriver |-> "undefined", insuranceSelected |-> "undefined",
             totalDays |-> 0, totalPrice |-> 0,
             bookingId |-> 0, status |-> "", reason |-> "", oldStatus |-> "",
             booking |-> NoBooking, car |-> NoCar,
             result |-> "", avail0 |-> 0, sent |-> <<>>]

\* Car.findById: the loaded copy, nothing modified yet
LoadCar(c) == [totalCarsAvailable |-> cars[c].totalCarsAvailable,
               isAvailable |-> cars[c].isAvailable,
               pricePerDay |-> cars[c].pricePerDay,
               modTotal |-> FALSE, modAvail |-> FALSE]

\* assignment to a path of a loaded document: dirty only if the value differs
SetTotal(doc, v) == [doc EXCEPT !.totalCarsAvailable = v,
                                !.modTotal = @ \/ (v # doc.totalCarsAvailable)]
SetAvail(doc, v) == [doc EXCEPT !.isAvailable = v,
                                !.modAvail = @ \/ (v # doc.isAvailable)]

\* a save whose update has no _id filter: the dirty paths go to every car
SaveCar_EveryCar(c, doc) ==
  cars' = [x \in DOMAIN cars |->
             [cars[x] EXCEPT !.totalCarsAvailable =
                                IF doc.modTotal THEN doc.totalCarsAvailable ELSE @,
                             !.isAvailable =
                                IF doc.modAvail THEN doc.isAvailable ELSE @]]

\* car.save(): $set of the dirty paths
SaveCar(c, doc) ==
  cars' = [cars EXCEPT ![c] =
             [@ EXCEPT !.totalCarsAvailable =
                          IF doc.modTotal THEN doc.totalCarsAvailable ELSE @,
                       !.isAvailable =
                          IF doc.modAvail THEN doc.isAvailable ELSE @]]

\* Booking.findById(...): the loaded copy of the mutable paths
LoadBooking(b) == [bookingStatus |-> bookings[b].bookingStatus,
                   cancellationReason |-> bookings[b].cancellationReason,
                   modStatus |-> FALSE, modReason |-> FALSE]
SetStatus(doc, v) == [doc EXCEPT !.bookingStatus = v,
                                 !.modStatus = @ \/ (v # doc.bookingStatus)]
SetReason(doc, v) == [doc EXCEPT !.cancellationReason = v,
                                 !.modReason = @ \/ (v # doc.cancellationReason)]

\* a hook that rounds the day count down
PreSaveDays_Floor(doc) == Abs(doc.dropoffDate - doc.pickupDate) \div oneDay

\* BookingSchema.pre('save'): totalDays and totalPrice recomputed from the
\* document's own dates, rate and add-on flags
PreSaveDays(doc) == Ceil(Abs(doc.dropoffDate - doc.pickupDate), oneDay)
PreSavePrice(doc) ==
  doc.pricePerDay * PreSaveDays(doc)
    + (IF doc.insuranceSelected THEN InsurancePerDay * PreSaveDays(doc) ELSE 0)
    + (IF doc.additionalDriver THEN AdditionalDriverPerDay * PreSaveDays(doc) ELSE 0)
PreSave(doc) == [doc EXCEPT !.totalDays = PreSaveDays(doc),
                            !.totalPrice = PreSavePrice(doc)]

\* a save that takes the rate from the car's current price
SaveBooking_Reprice(b, doc) ==
  bookings' = [bookings EXCEPT ![b] =
     PreSave([@ EXCEPT !.bookingStatus =
                          IF doc.modStatus THEN doc.bookingStatus ELSE @,
                       !.cancellationReason =
                          IF doc.modReason THEN doc.cancellationReason ELSE @,
                       !.pricePerDay = cars[bookings[b].car].pricePerDay])]

\* a save that removes the newest booking when it is cancelled
SaveBooking_Purge(b, doc) ==
  bookings' = IF doc.modStatus /\ doc.bookingStatus = "cancelled" /\ b = Len(bookings)
                THEN SubSeq(bookings, 1, b - 1)
                ELSE [bookings EXCEPT ![b] =
                        PreSave([@ EXCEPT !.bookingStatus =
                                   IF doc.modStatus THEN doc.bookingStatus ELSE @,
                                 !.cancellationReason =
                                   IF doc.modReason THEN doc.cancellationReason ELSE @])]

\* booking.save() of a loaded document: dirty paths, then the hook on the
\* stored dates, rate and flags (which no handler assigns)
SaveBooking(b, doc) ==
  bookings' = [bookings EXCEPT ![b] =
     PreSave([@ EXCEPT !.bookingStatus =
                          IF doc.modStatus THEN doc.bookingStatus ELSE @,
                       !.cancellationReason =
                          IF doc.modReason THEN doc.cancellationReason ELSE @])]

\* a query with closed windows: a booking that ends when the request starts blocks
Conflicts_Closed(c, pickup, dropoff) ==
  {b \in DOMAIN bookings :
      /\ bookings[b].car = c
      /\ bookings[b].bookingStatus \in ActiveStatuses
      /\ bookings[b].pickupDate <= dropoff
      /\ bookings[b].dropoffDate >= pickup}

\* a query without the status filter
Conflicts_AnyStatus(c, pickup, dropoff) ==
  {b \in DOMAIN bookings :
      /\ bookings[b].car = c
      /\ bookings[b].pickupDate < dropoff
      /\ bookings[b].dropoffDate > pickup}

\* a query that lets overlapping bookings share a car while it has units left
Conflicts_PerUnit(c, pickup, dropoff) ==
  IF cars[c].totalCarsAvailable > 0 THEN {}
  ELSE {b \in DOMAIN bookings :
          /\ bookings[b].car = c
          /\ bookings[b].bookingStatus \in ActiveStatuses
          /\ bookings[b].pickupDate < dropoff
          /\ bookings[b].dropoffDate > pickup}

\* the query of Booking.findOne in createBooking
Conflicts(c, pickup, dropoff) ==
  {b \in DOMAIN bookings :
      /\ bookings[b].car = c
      /\ bookings[b].bookingStatus \in ActiveStatuses
      /\ bookings[b].pickupDate < dropoff
      /\ bookings[b].dropoffDate > pickup}

Finish(p, r) == procs' = [procs EXCEPT ![p].pc = "done", ![p].result = r]

\* ------------------------------------------------------------ utils/email
\* a user argument the caller did not pass
NoUser == "undefined"

\* a call of one of the send functions for booking b with user `to`; ok is the
\* outcome of transporter.sendMail. Every send function catches what is thrown
\* in it and returns false; with no user there is no recipient and the read of
\* user.email throws, so nothing is delivered.
Notice(kind, b, to, ok) ==
  [kind |-> kind, booking |-> b, to |-> to, delivered |-> ok /\ to # NoUser]
sendBookingConfirmation(b, user, ok) == Notice("confirmation", b, user, ok)
sendBookingCancellation(b, user, ok) == Notice("cancellation", b, user, ok)
sendBookingCompletion(b, user, ok) == Notice("completion", b, user, ok)

\* a response that reports a notification that was not delivered
Reply_Escalate(notices) ==
  IF \E i \in DOMAIN notices : ~notices[i].delivered
    THEN "Email sending failed" ELSE "success"

\* the response after the notifications: the send functions are not awaited
\* and never reject, the handler answers with status "success"
Reply(notices) == "success"

\* the last segment of a handler: the notifications, then the response
Answer(p, notices) ==
  procs' = [procs EXCEPT ![p].pc = "done",
                         ![p].sent = procs[p].sent \o notices,
                         ![p].result = Reply(procs[p].sent \o notices)]

\* handlers that are still to insert their booking
Creating == {p \in Procs : procs[p].op = "createBooking"
                              /\ procs[p].pc \in {"findOne", "create"}}

\* handlers that are still to add a unit to car c
Releasing(c) == {p \in Procs : procs[p].carId = c
                    /\ procs[p].pc \in {"saveBooking", "findCar", "saveCar",
                                        "cancelFindCar", "cancelSaveCar"}
                    /\ procs[p].op \in {"cancelBooking", "updateBooking"}
                    /\ (procs[p].op = "updateBooking" => procs[p].pc # "saveBooking")}
\* a request that is to add a unit to car c is started only below MaxCounter
CounterBounded(c) ==
  cars[c].totalCarsAvailable + Cardinality(Releasing(c)) < MaxCounter

\* ---------------------------------------------------------- createBooking
\* a first segment that does not test the car's isAvailable
createBooking_findCar_NoFlag(p, carIds, users, windows, flags) ==
  /\ procs[p].pc = "idle"
  /\ Len(bookings) + Cardinality(Creating) < MaxBookings
  /\ \E c \in carIds, u \in users, w \in windows, ad \in flags, ins \in flags :
       LET s == w[1]
           e == w[2]
           req == [IdleProc EXCEPT !.op = "createBooking", !.actor = Actor(u),
                     !.carId = c, !.pickupDate = s, !.dropoffDate = e,
                     !.additionalDriver = ad, !.insuranceSelected = ins,
                     !.avail0 = IF c \in Cars THEN cars[c].totalCarsAvailable ELSE 0]
           fail(r) == procs' = [procs EXCEPT ![p] = [req EXCEPT !.pc = "done", !.result = r]]
       IN  IF c = "" THEN fail("Missing required booking information")
           ELSE IF e <= s THEN fail("Drop-off must be after pick-up")
           ELSE IF c \notin Cars THEN fail("Car not found")
           ELSE procs' = [procs EXCEPT ![p] =
                            [req EXCEPT !.pc = "findOne", !.car = LoadCar(c)]]
  /\ UNCHANGED <<cars, bookings, totalUnits>>

\* lines 11-58: body, required fields, parseDateTime, dropoff > pickup,
\* Car.findById, isAvailable
createBooking_findCar(p, carIds, users, windows, flags) ==
  /\ procs[p].pc = "idle"
  /\ Len(bookings) + Cardinality(Creating) < MaxBookings
  /\ \E c \in carIds, u \in users, w \in windows, ad \in flags, ins \in flags :
       LET s == w[1]
           e == w[2]
           req == [IdleProc EXCEPT !.op = "createBooking", !.actor = Actor(u),
                     !.carId = c, !.pickupDate = s, !.dropoffDate = e,
                     !.additionalDriver = ad, !.insuranceSelected = ins,
                     !.avail0 = IF c \in Cars THEN cars[c].totalCarsAvailable ELSE 0]
           fail(r) == procs' = [procs EXCEPT ![p] = [req EXCEPT !.pc = "done", !.result = r]]
       IN  IF c = "" THEN fail("Missing required booking information")
           ELSE IF e <= s THEN fail("Drop-off must be after pick-up")
           ELSE IF c \notin Cars THEN fail("Car not found")
           ELSE IF ~cars[c].isAvailable THEN fail("Car is not available for booking")
           ELSE procs' = [procs EXCEPT ![p] =
                            [req EXCEPT !.pc = "findOne", !.car = LoadCar(c)]]
  /\ UNCHANGED <<cars, bookings, totalUnits>>

\* lines 60-96: conflict query, totalDays, totalPrice
createBooking_findOne(p) ==
  /\ procs[p].op = "createBooking" /\ procs[p].pc = "findOne"
  /\ LET r == procs[p]
         days == Ceil(r.dropoffDate - r.pickupDate, oneDay)
         base == r.car.pricePerDay
     IN  IF Conflicts(r.carId, r.pickupDate, r.dropoffDate) # {}
           THEN Finish(p, "Car is already booked for the selected dates")
         ELSE IF days < 1 THEN Finish(p, "Minimum booking is 1 day")
         ELSE procs' = [procs EXCEPT ![p].pc = "create", ![p].totalDays = days,
                          ![p].totalPrice =
                             base * days
                               + (IF r.insuranceSelected = "true" THEN InsurancePerDay * days ELSE 0)
                               + (IF r.additionalDriver = "true" THEN AdditionalDriverPerDay * days ELSE 0)]
  /\ UNCHANGED <<cars, bookings, totalUnits>>

\* lines 98-114: Booking.create (a save of a new document: the hook runs);
\* lines 116-120: the changes to the loaded car
createBooking_create(p) ==
  /\ procs[p].op = "createBooking" /\ procs[p].pc = "create"
  /\ LET r == procs[p]
         doc == [user |-> r.actor.id, car |-> r.carId,
                 pickupDate |-> r.pickupDate, dropoffDate |-> r.dropoffDate,
                 totalDays |-> r.totalDays, pricePerDay |-> r.car.pricePerDay,
                 totalPrice |-> r.totalPrice,
                 additionalDriver |-> (r.additionalDriver = "true"),
                 insuranceSelected |-> (r.insuranceSelected # "false"),
                 bookingStatus |-> "confirmed", cancellationReason |-> ""]
         car1 == IF r.car.totalCarsAvailable = 1 THEN SetAvail(r.car, FALSE) ELSE r.car
         car2 == SetTotal(car1, Max(0, car1.totalCarsAvailable - 1))
     IN  /\ bookings' = Append(bookings, PreSave(doc))
         /\ procs' = [procs EXCEPT ![p].pc = "saveCar", ![p].car = car2,
                                   ![p].bookingId = Len(bookings) + 1]
  /\ UNCHANGED <<cars, totalUnits>>

\* lines 121-136: car.save(), the confirmation to req.user, the response
createBooking_saveCar(p) ==
  /\ procs[p].op = "createBooking" /\ procs[p].pc = "saveCar"
  /\ SaveCar(procs[p].carId, procs[p].car)
  /\ \E ok \in BOOLEAN :
       Answer(p, <<sendBookingConfirmation(procs[p].bookingId, procs[p].actor.id, ok)>>)
  /\ UNCHANGED <<bookings, totalUnits>>

\* ---------------------------------------------------------- cancelBooking
\* the messages of the errors of lines 196-221
NotFound == "Booking not found"
Forbidden == "You are not authorized to cancel this booking"
ReasonRequired == "Please Provide Cancellation Reason"
AlreadyCancelled == "Booking is already cancelled"
TerminalCompleted == "Cannot cancel completed booking"

\* checks that let an empty reason through
cancelChecks_AnyReason(b, a, why) ==
  IF b \notin DOMAIN bookings THEN NotFound
  ELSE IF bookings[b].user # a /\ Actor(a).role # "admin" THEN Forbidden
  ELSE IF bookings[b].bookingStatus = "cancelled" THEN AlreadyCancelled
  ELSE IF bookings[b].bookingStatus = "completed" THEN TerminalCompleted
  ELSE "success"

\* checks that do not look at the status of the booking
cancelChecks_AnyStatus(b, a, why) ==
  IF b \notin DOMAIN bookings THEN NotFound
  ELSE IF why = "" THEN ReasonRequired
  ELSE IF bookings[b].user # a /\ Actor(a).role # "admin" THEN Forbidden
  ELSE "success"

\* lines 196-221: the checks of cancelBooking in the code's order; the message
\* of the first one that fails, "success" when all pass
cancelChecks(b, a, why) ==
  IF b \notin DOMAIN bookings THEN NotFound
  ELSE IF why = "" THEN ReasonRequired
  ELSE IF bookings[b].user # a /\ Actor(a).role # "admin" THEN Forbidden
  ELSE IF bookings[b].bookingStatus = "cancelled" THEN AlreadyCancelled
  ELSE IF bookings[b].bookingStatus = "completed" THEN TerminalCompleted
  ELSE "success"

\* lines 189-225: Booking.findById, the checks, the changes to the loaded booking
cancelBooking_findById(p, ids, actors, reasons) ==
  /\ procs[p].pc = "idle"
  /\ \E b \in ids, a \in actors, why \in reasons :
       LET req == [IdleProc EXCEPT !.op = "cancelBooking", !.actor = Actor(a),
                     !.bookingId = b, !.reason = why,
                     !.avail0 = IF b \in DOMAIN bookings
                                  THEN cars[bookings[b].car].totalCarsAvailable ELSE 0]
           fail(r) == procs' = [procs EXCEPT ![p] = [req EXCEPT !.pc = "done", !.result = r]]
       IN  IF cancelChecks(b, a, why) # "success" THEN fail(cancelChecks(b, a, why))
           ELSE /\ CounterBounded(bookings[b].car)
                /\ procs' = [procs EXCEPT ![p] =
                  [req EXCEPT !.pc = "saveBooking", !.carId = bookings[b].car,
                     !.oldStatus = bookings[b].bookingStatus,
                     !.booking = SetReason(SetStatus(LoadBooking(b), "cancelled"), why)]]
  /\ UNCHANGED <<cars, bookings, totalUnits>>

\* line 226: booking.save()
cancelBooking_saveBooking(p) ==
  /\ procs[p].op = "cancelBooking" /\ procs[p].pc = "saveBooking"
  /\ SaveBooking(procs[p].bookingId, procs[p].booking)
  /\ procs' = [procs EXCEPT ![p].pc = "findCar"]
  /\ UNCHANGED <<cars, totalUnits>>

\* a release that adds the unit and leaves the flag as it was
ReleaseUnit_NoFlag(doc) == SetTotal(doc, doc.totalCarsAvailable + 1)

\* a release that restores the flag and forgets the counter
ReleaseUnit_FlagOnly(doc) ==
  IF ~doc.isAvailable THEN SetAvail(doc, TRUE) ELSE doc

\* lines 229-234: Car.findById and the changes to the loaded car
ReleaseUnit(doc) ==
  LET car1 == SetTotal(doc, doc.totalCarsAvailable + 1)
  IN  IF ~car1.isAvailable /\ car1.totalCarsAvailable > 0
        THEN SetAvail(car1, TRUE) ELSE car1

cancelBooking_findCar(p) ==
  /\ procs[p].op = "cancelBooking" /\ procs[p].pc = "findCar"
  /\ procs' = [procs EXCEPT ![p].pc = "saveCar",
                            ![p].car = ReleaseUnit(LoadCar(procs[p].carId))]
  /\ UNCHANGED <<cars, bookings, totalUnits>>

\* lines 236-247: car.save(), the cancellation to req.user, the response
cancelBooking_saveCar(p) ==
  /\ procs[p].op = "cancelBooking" /\ procs[p].pc = "saveCar"
  /\ SaveCar(procs[p].carId, procs[p].car)
  /\ \E ok \in BOOLEAN :
       Answer(p, <<sendBookingCancellation(procs[p].bookingId, procs[p].actor.id, ok)>>)
  /\ UNCHANGED <<bookings, totalUnits>>

\* ---------------------------------------------------------- updateBooking
\* lines 375-381: the completion sent to booking.user before booking.save()
completionNotices(b, st, old, ok) ==
  IF st = "completed" /\ old # "completed"
    THEN <<sendBookingCompletion(b, bookings[b].user, ok)>> ELSE <<>>

\* lines 386-394: the notification for the new status after booking.save();
\* the completion is called with (booking, booking.user): its third
\* parameter, the user, is not passed
statusNotices(b, st, ok) ==
  IF st = "confirmed" THEN <<sendBookingConfirmation(b, bookings[b].user, ok)>>
  ELSE IF st = "cancelled" THEN <<sendBookingCancellation(b, bookings[b].user, ok)>>
  ELSE IF st = "completed" THEN <<sendBookingCompletion(b, NoUser, ok)>>
  ELSE <<>>

\* the messages of the errors of lines 314-331
StatusRequired == "Please provide booking status"
InvalidStatus == "Invalid booking status"

\* checks that take any status that is given
updateChecks_AnyStatus(b, st) ==
  IF st = "" THEN StatusRequired
  ELSE IF b \notin DOMAIN bookings THEN NotFound
  ELSE "success"

\* lines 314-331: the checks of updateBooking in the code's order; the message
\* of the first one that fails, "success" when all pass
updateChecks(b, st) ==
  IF st = "" THEN StatusRequired
  ELSE IF st \notin validStatuses THEN InvalidStatus
  ELSE IF b \notin DOMAIN bookings THEN NotFound
  ELSE "success"

\* a routing that takes a unit whenever a booking leaves cancelled for an
\* active status
updateBranch_ReserveOnReactivate(st, old) ==
  IF st = "cancelled" /\ old # "cancelled" THEN "cancelFindCar"
  ELSE IF st \in ActiveStatuses /\ old = "cancelled" THEN "confirmFindCar"
  ELSE "saveBooking"

\* a routing that releases a unit on completion as well
updateBranch_ReleaseOnComplete(st, old) ==
  IF st = "cancelled" /\ old # "cancelled" THEN "cancelFindCar"
  ELSE IF st = "completed" /\ old # "completed" THEN "cancelFindCar"
  ELSE IF st = "confirmed" /\ old = "cancelled" THEN "confirmFindCar"
  ELSE "saveBooking"

\* the tests of lines 341, 357 and 375: the next awaited call of the handler
\* (the completion branch awaits nothing and goes on to booking.save())
updateBranch(st, old) ==
  IF st = "cancelled" /\ old # "cancelled" THEN "cancelFindCar"
  ELSE IF st = "confirmed" /\ old = "cancelled" THEN "confirmFindCar"
  ELSE "saveBooking"

\* lines 310-343 and the tests of lines 341, 357: status validation,
\* Booking.findById, oldStatus, the assignment of the new status
updateBooking_findById(p, ids, actors, statuses, reasons) ==
  /\ procs[p].pc = "idle"
  /\ \E b \in ids, a \in actors, st \in statuses :
     \* req.body.cancellationReason is read on line 343 only
     \E why \in IF st = "cancelled" THEN reasons ELSE {""} :
     \E ok \in BOOLEAN :
       LET req == [IdleProc EXCEPT !.op = "updateBooking", !.actor = Actor(a),
                     !.bookingId = b, !.status = st, !.reason = why,
                     !.avail0 = IF b \in DOMAIN bookings
                                  THEN cars[bookings[b].car].totalCarsAvailable ELSE 0]
           fail(r) == procs' = [procs EXCEPT ![p] = [req EXCEPT !.pc = "done", !.result = r]]
       IN  IF updateChecks(b, st) # "success" THEN fail(updateChecks(b, st))
           ELSE LET old == bookings[b].bookingStatus
                    doc == SetStatus(LoadBooking(b), st)
                IN  /\ (st = "cancelled" /\ old # "cancelled")
                          => CounterBounded(bookings[b].car)
                    /\ procs' = [procs EXCEPT ![p] =
                      [req EXCEPT !.carId = bookings[b].car, !.oldStatus = old,
                         !.booking = IF st = "cancelled" /\ old # "cancelled"
                                       THEN SetReason(doc, IF why # "" THEN why ELSE AdminReason)
                                       ELSE doc,
                         !.sent = completionNotices(b, st, old, ok),
                         !.pc = updateBranch(st, old)]]
  /\ UNCHANGED <<cars, bookings, totalUnits>>

\* lines 346-351
updateBooking_cancelFindCar(p) ==
  /\ procs[p].op = "updateBooking" /\ procs[p].pc = "cancelFindCar"
  /\ procs' = [procs EXCEPT ![p].pc = "cancelSaveCar",
                            ![p].car = ReleaseUnit(LoadCar(procs[p].carId))]
  /\ UNCHANGED <<cars, bookings, totalUnits>>

\* line 352
updateBooking_cancelSaveCar(p) ==
  /\ procs[p].op = "updateBooking" /\ procs[p].pc = "cancelSaveCar"
  /\ SaveCar(procs[p].carId, procs[p].car)
  /\ procs' = [procs EXCEPT ![p].pc = "saveBooking"]
  /\ UNCHANGED <<bookings, totalUnits>>

\* lines 366-369: the changes to the loaded car on cancelled -> confirmed
ReserveUnit(doc) ==
  LET car1 == SetTotal(doc, doc.totalCarsAvailable - 1)
  IN  IF car1.totalCarsAvailable = 0 THEN SetAvail(car1, FALSE) ELSE car1

\* line 361: the message of the error
FullyBooked == "Car is no longer available"

\* a re-confirmation that runs the query of createBooking again
updateBooking_confirmFindCar_Recheck(p) ==
  /\ procs[p].op = "updateBooking" /\ procs[p].pc = "confirmFindCar"
  /\ IF cars[procs[p].carId].totalCarsAvailable <= 0
       THEN Finish(p, "Car is no longer available")
       ELSE IF Conflicts(procs[p].carId, bookings[procs[p].bookingId].pickupDate,
                         bookings[procs[p].bookingId].dropoffDate) # {}
         THEN Finish(p, "Car is already booked for the selected dates")
         ELSE procs' = [procs EXCEPT ![p].pc = "confirmSaveCar",
                                     ![p].car = ReserveUnit(LoadCar(procs[p].carId))]
  /\ UNCHANGED <<cars, bookings, totalUnits>>

\* a re-confirmation that takes a unit without looking at the counter
updateBooking_confirmFindCar_NoCheck(p) ==
  /\ procs[p].op = "updateBooking" /\ procs[p].pc = "confirmFindCar"
  /\ procs' = [procs EXCEPT ![p].pc = "confirmSaveCar",
                            ![p].car = ReserveUnit(LoadCar(procs[p].carId))]
  /\ UNCHANGED <<cars, bookings, totalUnits>>

\* lines 359-369
updateBooking_confirmFindCar(p) ==
  /\ procs[p].op = "updateBooking" /\ procs[p].pc = "confirmFindCar"
  /\ IF cars[procs[p].carId].totalCarsAvailable <= 0
       THEN Finish(p, FullyBooked)
       ELSE procs' = [procs EXCEPT ![p].pc = "confirmSaveCar",
                                   ![p].car = ReserveUnit(LoadCar(procs[p].carId))]
  /\ UNCHANGED <<cars, bookings, totalUnits>>

\* line 370
updateBooking_confirmSaveCar(p) ==
  /\ procs[p].op = "updateBooking" /\ procs[p].pc = "confirmSaveCar"
  /\ SaveCar(procs[p].carId, procs[p].car)
  /\ procs' = [procs EXCEPT ![p].pc = "saveBooking"]
  /\ UNCHANGED <<bookings, totalUnits>>

\* lines 383-406: booking.save(), then the response
updateBooking_saveBooking(p) ==
  /\ procs[p].op = "updateBooking" /\ procs[p].pc = "saveBooking"
  /\ SaveBooking(procs[p].bookingId, procs[p].booking)
  /\ \E ok \in BOOLEAN :
       Answer(p, statusNotices(procs[p].bookingId, procs[p].status, ok))
  /\ UNCHANGED <<cars, totalUnits>>

\* the handler has returned: the slot is free for the next request
Respond(p) ==
  /\ procs[p].pc = "done"
  /\ procs' = [procs EXCEPT ![p] = IdleProc]
  /\ UNCHANGED <<cars, bookings, totalUnits>>

\* the handler is between two of its awaits
InFlight(p) == procs[p].pc \notin {"idle", "done"}

\* the awaited database call the handler is at rejects (store unreachable): the
\* call writes nothing, the rest of the handler does not run, the request is
\* answered with an error
StoreError == "store error"
StoreFails(p) ==
  /\ InFlight(p)
  /\ Finish(p, StoreError)
  /\ UNCHANGED <<cars, bookings, totalUnits>>

\* -------------------------------------------------------------- updateCar
\* controllers/cars.js, updateCar: Car.findById, then updateData built from the
\* body and the loaded car.  A field of the body is a sequence: <<>> when the
\* body does not carry it, <<v>> when it carries a value that passes the
\* schema's validators.
updateCar_findById(p, ids, rates, totals, avails) ==
  /\ procs[p].pc = "idle"
  /\ \E c \in ids, rate \in rates, total \in totals, avail \in avails :
       LET req == [IdleProc EXCEPT !.op = "updateCar", !.actor = Actor("admin"),
                     !.carId = c]
       IN  IF c \notin Cars
             THEN procs' = [procs EXCEPT ![p] =
                              [req EXCEPT !.pc = "done", !.result = "Car not found"]]
             ELSE procs' = [procs EXCEPT ![p] =
                    [req EXCEPT !.pc = "findByIdAndUpdate",
                       !.car = [pricePerDay |->
                                  IF rate # <<>> THEN rate[1] ELSE cars[c].pricePerDay,
                                totalCarsAvailable |->
                                  IF total # <<>> THEN total[1]
                                  ELSE cars[c].totalCarsAvailable,
                                isAvailable |->
                                  IF avail # <<>> THEN avail[1] ELSE cars[c].isAvailable,
                                modTotal |-> FALSE, modAvail |-> FALSE]]]
  /\ UNCHANGED <<cars, bookings, totalUnits>>

\* Car.findByIdAndUpdate(id, updateData): every field of updateData is written
updateCar_findByIdAndUpdate(p) ==
  /\ procs[p].op = "updateCar" /\ procs[p].pc = "findByIdAndUpdate"
  /\ cars' = [cars EXCEPT ![procs[p].carId] =
                [totalCarsAvailable |-> procs[p].car.totalCarsAvailable,
                 isAvailable |-> procs[p].car.isAvailable,
                 pricePerDay |-> procs[p].car.pricePerDay]]
  /\ Finish(p, "success")
  /\ UNCHANGED <<bookings, totalUnits>>

\* ------------------------------------------------------- specifications
\* new cars of the catalog: createCar stores totalCarsAvailable = n and
\* isAvailable = (n > 0); no booking refers to them yet.  car1 has any number
\* of units up to MaxUnits, car2 is a single-unit car.
Init ==
  /\ totalUnits \in {f \in [Cars -> 1..MaxUnits] : f["car2"] = 1}
  /\ cars = [c \in Cars |-> [totalCarsAvailable |-> totalUnits[c],
                             isAvailable |-> totalUnits[c] > 0,
                             pricePerDay |-> 50]]
  /\ bookings = <<>>
  /\ procs = [p \in Procs |-> IdleProc]

AllIdle == \A q \in Procs : procs[q].pc = "idle"

CarIdInputs == Cars \cup {UnknownCar}
CreateUsers == {"u1"}
\* <<pickup, dropoff>> in ticks: two windows that touch at 1, an empty one and
\* a reversed one
WindowInputs == {<<0, 1>>, <<1, 2>>, <<1, 1>>, <<2, 1>>}
FlagInputs == {"undefined"}
CancelActors == Users \cup Admins
ReasonInputs == {"", "change of plans"}
BookingIdInputs == BookingIds \cup {UnknownBooking}
StatusInputs == validStatuses \cup {"archived", ""}

Continue(p) ==
  \/ createBooking_findOne(p)
  \/ createBooking_create(p)
  \/ createBooking_saveCar(p)
  \/ cancelBooking_saveBooking(p)
  \/ cancelBooking_findCar(p)
  \/ cancelBooking_saveCar(p)
  \/ updateBooking_cancelFindCar(p)
  \/ updateBooking_cancelSaveCar(p)
  \/ updateBooking_confirmFindCar(p)
  \/ updateBooking_confirmSaveCar(p)
  \/ updateBooking_saveBooking(p)
  \/ Respond(p)

\* requests served one after the other: a request is taken up only when no
\* handler is running
Serial(p) == AllIdle /\ p = 1
Next ==
  \E p \in Procs :
     \/ Serial(p) /\ createBooking_findCar(p, CarIdInputs, CreateUsers, WindowInputs, FlagInputs)
     \/ Serial(p) /\ cancelBooking_findById(p, BookingIdInputs, CancelActors, ReasonInputs)
     \/ Serial(p) /\ updateBooking_findById(p, BookingIdInputs, Admins, StatusInputs, ReasonInputs)
     \/ Continue(p)
Spec == Init /\ [][Next]_vars

\* requests served concurrently (any interleaving of the handlers' segments)
ConcCars == {"car1"}
ConcWindows == {<<0, 1>>, <<1, 2>>}
CCWindows == {<<0, 1>>, <<0, 2>>, <<1, 2>>}
ConcActors == {"u1"}
ConcReasons == {"change of plans"}
ConcStatuses == {"cancelled", "confirmed"}

BeginConc(p) ==
  \/ createBooking_findCar(p, ConcCars, CreateUsers, ConcWindows, FlagInputs)
  \/ cancelBooking_findById(p, BookingIds, ConcActors, ConcReasons)
  \/ updateBooking_findById(p, BookingIds, Admins, ConcStatuses, ConcReasons)

NextConc == \E p \in Procs : BeginConc(p) \/ Continue(p)
InitConc == Init /\ totalUnits["car1"] = MaxUnits
SpecConc == InitConc /\ [][NextConc]_vars

\* concurrent create and cancel requests only
BeginCC(p) ==
  \/ createBooking_findCar(p, ConcCars, CreateUsers, CCWindows, FlagInputs)
  \/ cancelBooking_findById(p, BookingIds, ConcActors, ConcReasons)

ContinueCC(p) ==
  \/ createBooking_findOne(p)
  \/ createBooking_create(p)
  \/ createBooking_saveCar(p)
  \/ cancelBooking_saveBooking(p)
  \/ cancelBooking_findCar(p)
  \/ cancelBooking_saveCar(p)
  \/ Respond(p)

NextCC == \E p \in Procs : BeginCC(p) \/ ContinueCC(p)
SpecCC == Init /\ [][NextCC]_vars

\* bookings with every add-on choice and windows of one and of several days,
\* while the catalog changes the car's rate; requests served one after the other
AllFlags == {"undefined", "true", "false"}
PriceWindows == {<<0, 2>>, <<2, 5>>, <<2, 2>>, <<5, 2>>}
RateInputs == {<<50>>, <<60>>}

NextPrice ==
  \E p \in Procs :
     \/ Serial(p) /\ createBooking_findCar(p, ConcCars, CreateUsers, PriceWindows, AllFlags)
     \/ Serial(p) /\ cancelBooking_findById(p, BookingIds, ConcActors, ConcReasons)
     \/ Serial(p) /\ updateBooking_findById(p, BookingIds, Admins, ConcStatuses, ConcReasons)
     \/ Serial(p) /\ updateCar_findById(p, ConcCars, RateInputs, {<<>>}, {<<>>})
     \/ updateCar_findByIdAndUpdate(p)
     \/ Continue(p)
SpecPrice == Init /\ [][NextPrice]_vars

\* bookings on car1 while the catalog sets its totalCarsAvailable and its
\* isAvailable independently; requests served one after the other
CatalogCars == ConcCars \cup {UnknownCar}
TotalInputs == {<<>>, <<0>>}
AvailInputs == {<<>>, <<TRUE>>, <<FALSE>>}

NextCatalog ==
  \E p \in Procs :
     \/ Serial(p) /\ createBooking_findCar(p, CatalogCars, CreateUsers, WindowInputs, FlagInputs)
     \/ Serial(p) /\ cancelBooking_findById(p, BookingIds, ConcActors, ConcReasons)
     \/ Serial(p) /\ updateBooking_findById(p, BookingIds, Admins, ConcStatuses, ConcReasons)
     \/ Serial(p) /\ updateCar_findById(p, CatalogCars, {<<>>}, TotalInputs, AvailInputs)
     \/ updateCar_findByIdAndUpdate(p)
     \/ Continue(p)
SpecCatalog == Init /\ [][NextCatalog]_vars

\* create and cancel requests served one after the other, on a store whose
\* calls may fail
NextFail ==
  \E p \in Procs :
     \/ Serial(p) /\ createBooking_findCar(p, ConcCars, CreateUsers, ConcWindows, FlagInputs)
     \/ Serial(p) /\ cancelBooking_findById(p, BookingIds, ConcActors, ConcReasons)
     \/ ContinueCC(p)
     \/ StoreFails(p)
SpecFail == Init /\ [][NextFail]_vars

\* ------------------------------------------------------------ the routes
\* middleware/auth restrictTo(...roles): a role that passes everyone
restrictTo_Anyone(roles, a) == TRUE

\* middleware/auth restrictTo(...roles): the request goes on to the handler
\* only if the role of the authenticated user is one of roles
restrictTo(roles, a) == a.role \in roles
PermissionDenied == "You do not have permission to perform this action"

\* router.patch('/:id', restrictTo('admin'), updateBooking)
patchBooking(p, ids, actors, statuses, reasons) ==
  /\ procs[p].pc = "idle"
  /\ \E a \in actors :
       IF restrictTo({"admin"}, Actor(a))
         THEN updateBooking_findById(p, ids, {a}, statuses, reasons)
         ELSE /\ \E b \in ids, st \in statuses :
                   procs' = [procs EXCEPT ![p] =
                     [IdleProc EXCEPT !.op = "updateBooking", !.actor = Actor(a),
                        !.bookingId = b, !.status = st,
                        !.pc = "done", !.result = PermissionDenied]]
              /\ UNCHANGED <<cars, bookings, totalUnits>>

\* requests of users and admins on both routes, served one after the other
AuthActors == Users \cup Admins
NextAuth ==
  \E p \in Procs :
     \/ Serial(p) /\ createBooking_findCar(p, ConcCars, CreateUsers, ConcWindows, FlagInputs)
     \/ Serial(p) /\ cancelBooking_findById(p, BookingIds, AuthActors, ReasonInputs)
     \/ Serial(p) /\ patchBooking(p, BookingIds, AuthActors, ConcStatuses, ConcReasons)
     \/ Continue(p)
SpecAuth == Init /\ [][NextAuth]_vars

\* ------------------------------------------------------------- the claims
Active(b) == bookings[b].bookingStatus \in ActiveStatuses
ActiveOn(c) == {b \in DOMAIN bookings : bookings[b].car = c /\ Active(b)}
Overlap(i, j) == /\ bookings[i].pickupDate < bookings[j].dropoffDate
                 /\ bookings[j].pickupDate < bookings[i].dropoffDate
\* no handler is between two of its awaits
Quiet == \A p \in Procs : procs[p].pc \in {"idle", "done"}
Succeeded(p) == procs[p].pc = "done" /\ procs[p].result = "success"
\* the booking of a createBooking request has been inserted
Persisted(p) == procs[p].op = "createBooking" /\ procs[p].bookingId # 0
\* the request takes the booking to cancelled
Cancels(p) == \/ procs[p].op = "cancelBooking"
              \/ procs[p].op = "updateBooking" /\ procs[p].status = "cancelled"
\* the change of totalCarsAvailable a successful request is meant to make
Delta(p) ==
  IF procs[p].op = "createBooking" THEN -1
  ELSE IF procs[p].op = "cancelBooking" THEN 1
  ELSE IF procs[p].status = "cancelled" /\ procs[p].oldStatus # "cancelled" THEN 1
  ELSE IF procs[p].status = "confirmed" /\ procs[p].oldStatus = "cancelled" THEN -1
  ELSE 0
Min(a, b) == IF a <= b THEN a ELSE b

\* C1: in every state reached by a sequence of create, cancel and setStatus
\* requests, no two distinct pending-or-confirmed bookings of one car have
\* overlapping half-open windows.
C1_NoOverlap ==
  \A i, j \in DOMAIN bookings :
     (i # j /\ bookings[i].car = bookings[j].car /\ Active(i) /\ Active(j))
        => ~Overlap(i, j)

\* C2: under every interleaving of concurrent create and cancel requests, a car
\* that had N units when it had no bookings never has more than N bookings in
\* status pending or confirmed.
C2_NoOverdraw ==
  \A c \in Cars : Cardinality(ActiveOn(c)) <= totalUnits[c]

\* C3: after every completed create, cancel or setStatus request, each car's
\* totalCarsAvailable equals its unit count minus the number of its bookings in
\* status pending or confirmed.
C3_CounterMatchesBookings ==
  Quiet => \A c \in Cars :
              cars[c].totalCarsAvailable = totalUnits[c] - Cardinality(ActiveOn(c))

\* C4: in every reachable state 0 <= totalCarsAvailable <= unit count, for
\* every car.
C4_CounterInRange ==
  \A c \in Cars : /\ 0 <= cars[c].totalCarsAvailable
                  /\ cars[c].totalCarsAvailable <= totalUnits[c]

\* C5: in every state reached by any sequence or interleaving of create, cancel
\* and setStatus requests, a car's isAvailable is true if and only if its
\* totalCarsAvailable is greater than 0.
C5_FlagMatchesCounter ==
  \A c \in Cars : cars[c].isAvailable <=> (cars[c].totalCarsAvailable > 0)

\* C6: once a booking is completed, no step of a cancel or setStatus request
\* changes its status, and no step of a cancel or setStatus request on it
\* changes any car's totalCarsAvailable or isAvailable.
C6_CompletedIsTerminal ==
  [][\A b \in DOMAIN bookings :
        bookings[b].bookingStatus = "completed" =>
          /\ bookings'[b].bookingStatus = "completed"
          /\ (\E p \in Procs : /\ InFlight(p)
                               /\ procs[p].op \in {"cancelBooking", "updateBooking"}
                               /\ procs[p].bookingId = b)
                => cars' = cars]_vars

\* C7: two create requests on one car that both began while it had exactly one
\* available unit, and ran concurrently, never both insert a booking.
C7_OneUnitOneWinner ==
  \A p, q \in Procs :
     (/\ p # q
      /\ procs[p].op = "createBooking" /\ procs[q].op = "createBooking"
      /\ procs[p].carId = procs[q].carId
      /\ procs[p].avail0 = 1 /\ procs[q].avail0 = 1)
        => ~(Persisted(p) /\ Persisted(q))

\* C8: two concurrent create requests on one car with overlapping windows never
\* both insert a booking, whatever the car's unit count.
C8_OverlappingCreatesExclude ==
  \A p, q \in Procs :
     (/\ p # q
      /\ procs[p].op = "createBooking" /\ procs[q].op = "createBooking"
      /\ procs[p].carId = procs[q].carId
      /\ procs[p].pickupDate < procs[q].dropoffDate
      /\ procs[q].pickupDate < procs[p].dropoffDate)
        => ~(Persisted(p) /\ Persisted(q))

\* C9: when two requests that cancel the same confirmed booking run
\* concurrently (cancel or setStatus(cancelled), in any pairing) and both have
\* returned, the car's totalCarsAvailable is exactly 1 above its value before
\* the two requests.
C9_OneReleasePerBooking ==
  \A p, q \in Procs :
     (/\ p # q
      /\ Cancels(p) /\ Cancels(q)
      /\ procs[p].bookingId = procs[q].bookingId
      /\ procs[p].oldStatus = "confirmed" /\ procs[q].oldStatus = "confirmed"
      /\ Succeeded(p) /\ Succeeded(q))
        => cars[procs[p].carId].totalCarsAvailable
              = Min(procs[p].avail0, procs[q].avail0) + 1

\* C10: when two successful requests on different bookings of one car, each
\* reserving or releasing a unit, have both returned, the car's
\* totalCarsAvailable is the value the first of them found plus the two changes:
\* no update of the counter is lost.
C10_NoLostUpdate ==
  \A p, q \in Procs :
     (/\ p # q
      /\ Succeeded(p) /\ Succeeded(q)
      /\ procs[p].carId = procs[q].carId
      /\ procs[p].bookingId # procs[q].bookingId
      /\ Delta(p) # 0 /\ Delta(q) # 0)
        => \/ cars[procs[p].carId].totalCarsAvailable
                 = procs[p].avail0 + Delta(p) + Delta(q)
           \/ cars[procs[p].carId].totalCarsAvailable
                 = procs[q].avail0 + Delta(p) + Delta(q)

\* the request took its booking from status a to status b
Transition(p, a, b) ==
  /\ procs[p].oldStatus = a
  /\ \/ procs[p].op = "cancelBooking" /\ b = "cancelled"
     \/ procs[p].op = "updateBooking" /\ procs[p].status = b

\* C11: with requests served one after the other, a successful request that
\* takes a booking from confirmed to cancelled (cancel or setStatus) leaves the
\* car's totalCarsAvailable exactly 1 above the value it found, one that takes
\* it from cancelled to confirmed leaves it exactly 1 below, and no step changes
\* the counter of a car other than the one of the running request.
C11_TransitionMovesOneUnit ==
  /\ [](\A p \in Procs :
          /\ (Succeeded(p) /\ Transition(p, "confirmed", "cancelled"))
                => cars[procs[p].carId].totalCarsAvailable = procs[p].avail0 + 1
          /\ (Succeeded(p) /\ Transition(p, "cancelled", "confirmed"))
                => cars[procs[p].carId].totalCarsAvailable = procs[p].avail0 - 1)
  /\ [][\A c \in Cars :
          cars'[c].totalCarsAvailable # cars[c].totalCarsAvailable
             => \E p \in Procs : InFlight(p) /\ procs[p].carId = c]_vars
C11_Witness ==
  \E p \in Procs :
     /\ Succeeded(p) /\ Transition(p, "cancelled", "confirmed")
     /\ cars[procs[p].carId].totalCarsAvailable = procs[p].avail0 - 1
     /\ bookings[procs[p].bookingId].bookingStatus = "confirmed"

\* the request asked for the add-on
Requested(flag) == flag = "true"

\* C12: a booking created by a request that carries neither the insurance nor
\* the additional-driver flag is stored with totalPrice = pricePerDay *
\* totalDays, with no surcharge.
C12_NoAddOnNoSurcharge ==
  \A p \in Procs :
     (/\ Persisted(p)
      /\ procs[p].insuranceSelected = "undefined"
      /\ procs[p].additionalDriver = "undefined")
        => bookings[procs[p].bookingId].totalPrice
             = bookings[procs[p].bookingId].pricePerDay
                 * bookings[procs[p].bookingId].totalDays

\* C13: every stored booking has totalPrice = pricePerDay * totalDays, plus 15
\* per day if the request asked for insurance, plus 10 per day if the request
\* asked for an additional driver, and nothing else.
C13_PriceFromRequestedAddOns ==
  \A p \in Procs :
     Persisted(p) =>
       LET b == bookings[procs[p].bookingId]
       IN  b.totalPrice =
             b.pricePerDay * b.totalDays
               + (IF Requested(procs[p].insuranceSelected)
                    THEN 15 * b.totalDays ELSE 0)
               + (IF Requested(procs[p].additionalDriver)
                    THEN 10 * b.totalDays ELSE 0)

\* C14: a stored booking's pricePerDay, totalDays and totalPrice never change
\* after its creation: no step of a cancel or setStatus request (whose save
\* runs the hook again) and no change of the car's price by updateCar alters
\* them, and no step removes a booking.
C14_PriceFrozen ==
  [][/\ Len(bookings') >= Len(bookings)
     /\ \A b \in DOMAIN bookings :
          /\ bookings'[b].pricePerDay = bookings[b].pricePerDay
          /\ bookings'[b].totalDays = bookings[b].totalDays
          /\ bookings'[b].totalPrice = bookings[b].totalPrice]_vars
\* a booking saved by a later request while the car's price differs from the
\* booking's rate
C14_Witness ==
  \E p \in Procs :
     /\ Succeeded(p) /\ procs[p].op \in {"cancelBooking", "updateBooking"}
     /\ bookings[procs[p].bookingId].pricePerDay # cars[procs[p].carId].pricePerDay
     /\ bookings[procs[p].bookingId].insuranceSelected
     /\ bookings[procs[p].bookingId].totalDays > 1

SlotConflict == "Car is already booked for the selected dates"
\* booking b is on the car of request p and its window [pd, dd) and the
\* requested window [s, e) satisfy pd < e and s < dd
Overlapping(p) ==
  {b \in DOMAIN bookings :
      /\ bookings[b].car = procs[p].carId
      /\ bookings[b].pickupDate < procs[p].dropoffDate
      /\ procs[p].pickupDate < bookings[b].dropoffDate}
Blocking(p) == {b \in Overlapping(p) : Active(b)}
\* booking b and the requested window of p meet at an endpoint
Touching(p) ==
  {b \in DOMAIN bookings :
      /\ bookings[b].car = procs[p].carId /\ Active(b)
      /\ \/ bookings[b].dropoffDate = procs[p].pickupDate
         \/ bookings[b].pickupDate = procs[p].dropoffDate}
\* the step in which request p gets the answer of its conflict query
ConflictChecked(p) ==
  /\ procs[p].op = "createBooking" /\ procs[p].pc = "findOne"
  /\ procs'[p].pc # "findOne"

\* C15: with requests served one after the other, a create on an available car
\* is rejected as a slot conflict if and only if some pending or confirmed
\* booking of the car has a window [pd, dd) with pd < e and s < dd, for the
\* requested window [s, e); a window that only touches one is not rejected.
C15_ConflictIffOverlap ==
  \A p \in Procs :
     procs[p].op = "createBooking" =>
        /\ (procs[p].pc = "done" /\ procs[p].result = SlotConflict)
              => Blocking(p) # {}
        /\ procs[p].pc = "create" => Blocking(p) = {}
C15_Witness ==
  \E p \in Procs :
     /\ procs[p].op = "createBooking" /\ procs[p].pc = "create"
     /\ Touching(p) # {}

\* C16: when every booking of the car whose window overlaps the requested one
\* is cancelled or completed, the conflict check of create passes.
C16_InactiveNeverBlocks ==
  [][\A p \in Procs :
        (/\ ConflictChecked(p)
         /\ \A b \in Overlapping(p) :
               bookings[b].bookingStatus \in {"cancelled", "completed"})
           => procs'[p].pc = "create"]_vars
C16_Witness ==
  \E p \in Procs :
     /\ procs[p].op = "createBooking" /\ procs[p].pc = "create"
     /\ \E b \in Overlapping(p) : bookings[b].bookingStatus = "cancelled"

\* C17: on a car with more than one unit and totalCarsAvailable > 0, create is
\* rejected as a slot conflict whenever a pending or confirmed booking of the
\* car overlaps the requested window, and inserts nothing.
C17_OverlapBlocksDespiteUnits ==
  [][\A p \in Procs :
        (/\ ConflictChecked(p)
         /\ totalUnits[procs[p].carId] > 1
         /\ cars[procs[p].carId].totalCarsAvailable > 0
         /\ Blocking(p) # {})
           => /\ procs'[p].pc = "done" /\ procs'[p].result = SlotConflict
              /\ bookings' = bookings /\ cars' = cars]_vars
C17_Witness ==
  \E p \in Procs :
     /\ procs[p].op = "createBooking"
     /\ procs[p].pc = "done" /\ procs[p].result = SlotConflict
     /\ totalUnits[procs[p].carId] > 1
     /\ cars[procs[p].carId].totalCarsAvailable > 0
     /\ cars[procs[p].carId].isAvailable

\* C18: a successful create has inserted exactly one booking, in status
\* confirmed, has left the car's totalCarsAvailable exactly 1 below the value it
\* found, and has left isAvailable false exactly when that counter is 0.
C18_CreateTakesOneUnit ==
  \A p \in Procs :
     (Succeeded(p) /\ procs[p].op = "createBooking") =>
        /\ procs[p].bookingId = Len(bookings)
        /\ bookings[procs[p].bookingId].bookingStatus = "confirmed"
        /\ cars[procs[p].carId].totalCarsAvailable = procs[p].avail0 - 1
        /\ cars[procs[p].carId].isAvailable
              <=> cars[procs[p].carId].totalCarsAvailable > 0

\* C19: a create that finds the car's totalCarsAvailable at 0 inserts no
\* booking and does not succeed, whatever the car's isAvailable.
C19_NoUnitNoBooking ==
  \A p \in Procs :
     (/\ procs[p].op = "createBooking" /\ procs[p].carId \in Cars
      /\ procs[p].avail0 = 0)
        => ~Persisted(p) /\ ~Succeeded(p)

\* C20: a create with a valid window on a car whose isAvailable is false ends
\* at once with "Car is not available for booking", and one on an unknown car
\* with "Car not found"; neither inserts a booking nor changes any car.
C20_UnavailableOrUnknownFails ==
  [][\A p \in Procs :
        (/\ procs[p].pc = "idle" /\ procs'[p].op = "createBooking"
         /\ procs'[p].dropoffDate > procs'[p].pickupDate)
           => /\ procs'[p].carId \notin Cars
                   => /\ procs'[p].pc = "done"
                      /\ procs'[p].result = "Car not found"
                      /\ bookings' = bookings /\ cars' = cars
              /\ (procs'[p].carId \in Cars /\ ~cars[procs'[p].carId].isAvailable)
                   => /\ procs'[p].pc = "done"
                      /\ procs'[p].result = "Car is not available for booking"
                      /\ bookings' = bookings /\ cars' = cars]_vars
\* rejected on a car that has a unit left and a false flag
C20_Witness ==
  \E p \in Procs :
     /\ procs[p].op = "createBooking" /\ procs[p].pc = "done"
     /\ procs[p].result = "Car is not available for booking"
     /\ procs[p].bookingId = 0
     /\ cars[procs[p].carId].totalCarsAvailable > 0

\* C21: every stored booking has dropoffDate > pickupDate and totalDays >= 1
\* equal to the number of days of its window rounded up (the least n with
\* n days >= dropoffDate - pickupDate); a create whose dropoff is not after its
\* pickup is rejected at once and changes neither bookings nor cars.
C21_WindowAndDays ==
  /\ [](\A b \in DOMAIN bookings :
          LET len == bookings[b].dropoffDate - bookings[b].pickupDate
              n == bookings[b].totalDays
          IN  /\ len > 0 /\ n >= 1
              /\ n * oneDay >= len /\ (n - 1) * oneDay < len)
  /\ [][\A p \in Procs :
          (/\ procs[p].pc = "idle" /\ procs'[p].op = "createBooking"
           /\ procs'[p].dropoffDate <= procs'[p].pickupDate)
             => /\ procs'[p].pc = "done"
                /\ procs'[p].result = "Drop-off must be after pick-up"
                /\ bookings' = bookings /\ cars' = cars]_vars
\* a stored booking of a day and a half, counted as 2 days
C21_Witness ==
  \E b \in DOMAIN bookings :
     /\ bookings[b].totalDays = 2
     /\ (bookings[b].dropoffDate - bookings[b].pickupDate) % oneDay # 0

\* C22: a create that has returned an error (a rejection, or a failure of the
\* store at any of its calls) has inserted no booking and has left the car's
\* totalCarsAvailable as it found it; one that has returned success has
\* inserted its booking and has taken the counter down by 1.
C22_CreateAllOrNothing ==
  \A p \in Procs :
     (procs[p].op = "createBooking" /\ procs[p].pc = "done") =>
        IF procs[p].result = "success"
          THEN /\ procs[p].bookingId \in DOMAIN bookings
               /\ cars[procs[p].carId].totalCarsAvailable = procs[p].avail0 - 1
          ELSE /\ procs[p].bookingId = 0
               /\ procs[p].carId \in Cars
                    => cars[procs[p].carId].totalCarsAvailable = procs[p].avail0

\* C23: within one create the unit is deducted before the booking is stored:
\* in no state has the request inserted its booking while the car's
\* totalCarsAvailable still has the value the request found.
C23_DeductBeforePersist ==
  \A p \in Procs :
     Persisted(p) => cars[procs[p].carId].totalCarsAvailable # procs[p].avail0

\* the actor of the request may cancel booking b: its requester, or an admin
MayCancel(a, b) == bookings[b].user = a.id \/ a.role = "admin"

\* C24: a cancel of a pending or confirmed booking by its requester or an
\* admin, with a non-empty reason, is accepted; when it has succeeded the
\* booking is cancelled with the given reason, the car's totalCarsAvailable
\* is 1 above the value found and its isAvailable is true.
C24_CancelReleases ==
  /\ [](\A p \in Procs :
          (Succeeded(p) /\ procs[p].op = "cancelBooking") =>
             /\ bookings[procs[p].bookingId].bookingStatus = "cancelled"
             /\ bookings[procs[p].bookingId].cancellationReason = procs[p].reason
             /\ procs[p].reason # ""
             /\ cars[procs[p].carId].totalCarsAvailable = procs[p].avail0 + 1
             /\ cars[procs[p].carId].isAvailable)
  /\ [][\A p \in Procs :
          (/\ procs[p].pc = "idle" /\ procs'[p].op = "cancelBooking"
           /\ procs'[p].bookingId \in DOMAIN bookings
           /\ procs'[p].reason # "")
             => ((Active(procs'[p].bookingId)
                    /\ MayCancel(procs'[p].actor, procs'[p].bookingId))
                  => procs'[p].pc = "saveBooking")]_vars
\* the one unit of a booked-out car is back: 0 -> 1, false -> true
C24_Witness ==
  \E p \in Procs :
     /\ Succeeded(p) /\ procs[p].op = "cancelBooking"
     /\ procs[p].avail0 = 0
     /\ cars[procs[p].carId].totalCarsAvailable = 1
     /\ cars[procs[p].carId].isAvailable
     /\ bookings[procs[p].bookingId].bookingStatus = "cancelled"

\* the first failing check of a cancel in the order NotFound, Forbidden,
\* ReasonRequired, AlreadyCancelled, TerminalCompleted
FirstFailure(p) ==
  LET b == procs[p].bookingId
  IN  IF b \notin DOMAIN bookings THEN NotFound
      ELSE IF ~MayCancel(procs[p].actor, b) THEN Forbidden
      ELSE IF procs[p].reason = "" THEN ReasonRequired
      ELSE IF bookings[b].bookingStatus = "cancelled" THEN AlreadyCancelled
      ELSE IF bookings[b].bookingStatus = "completed" THEN TerminalCompleted
      ELSE "success"

\* C25: a cancel that fails returns the error of the first failing check in
\* the order NotFound, Forbidden, ReasonRequired, AlreadyCancelled,
\* TerminalCompleted; an actor who is neither the requester nor an admin gets
\* Forbidden also when the reason is empty.
C25_CancelCheckOrder ==
  \A p \in Procs :
     (/\ procs[p].op = "cancelBooking" /\ procs[p].pc = "done"
      /\ procs[p].result # "success")
        => procs[p].result = FirstFailure(p)

\* C26: a cancel that fails leaves every booking and every car as they were;
\* a cancel of an existing booking by its requester or an admin with an empty
\* reason fails with ReasonRequired and the stored status stays as it was.
C26_FailedCancelChangesNothing ==
  /\ [][\A p \in Procs :
          (/\ procs[p].pc = "idle" /\ procs'[p].op = "cancelBooking"
           /\ procs'[p].pc = "done" /\ procs'[p].result # "success")
             => (cars' = cars /\ bookings' = bookings)]_vars
  /\ [][\A p \in Procs :
          (/\ procs[p].pc = "idle" /\ procs'[p].op = "cancelBooking"
           /\ procs'[p].bookingId \in DOMAIN bookings
           /\ MayCancel(procs'[p].actor, procs'[p].bookingId)
           /\ procs'[p].reason = "")
             => /\ procs'[p].pc = "done"
                /\ procs'[p].result = ReasonRequired
                /\ bookings' = bookings /\ cars' = cars]_vars
\* the requester's cancel without a reason has failed, the booking is confirmed
C26_Witness ==
  \E p \in Procs :
     /\ procs[p].op = "cancelBooking" /\ procs[p].pc = "done"
     /\ procs[p].result = ReasonRequired
     /\ procs[p].reason = ""
     /\ procs[p].bookingId \in DOMAIN bookings
     /\ bookings[procs[p].bookingId].user = procs[p].actor.id
     /\ bookings[procs[p].bookingId].bookingStatus = "confirmed"
     /\ bookings[procs[p].bookingId].cancellationReason = ""

\* C27: a cancel by the requester or an admin, with a reason, of a booking
\* that is cancelled fails with AlreadyCancelled, of one that is completed
\* fails with TerminalCompleted, and changes nothing; so, requests being served
\* one after the other, a cancel changes a car only if the booking was
\* pending or confirmed when the cancel found it.
C27_CancelIsTerminal ==
  /\ [][\A p \in Procs :
          (/\ procs[p].pc = "idle" /\ procs'[p].op = "cancelBooking"
           /\ procs'[p].bookingId \in DOMAIN bookings
           /\ MayCancel(procs'[p].actor, procs'[p].bookingId)
           /\ procs'[p].reason # ""
           /\ bookings[procs'[p].bookingId].bookingStatus \in {"cancelled", "completed"})
             => /\ procs'[p].pc = "done"
                /\ procs'[p].result =
                     IF bookings[procs'[p].bookingId].bookingStatus = "cancelled"
                       THEN AlreadyCancelled ELSE TerminalCompleted
                /\ bookings' = bookings /\ cars' = cars]_vars
  /\ [][\A p \in Procs :
          (procs[p].op = "cancelBooking" /\ procs'[p].op = "cancelBooking"
           /\ cars' # cars)
             => procs[p].oldStatus \in {"pending", "confirmed"}]_vars
\* a second cancel of a booking cancelled before: rejected, the unit released
\* by the first cancel is the only one released
C27_Witness ==
  \E p \in Procs :
     /\ procs[p].op = "cancelBooking" /\ procs[p].pc = "done"
     /\ procs[p].result = AlreadyCancelled
     /\ bookings[procs[p].bookingId].bookingStatus = "cancelled"
     /\ cars[bookings[procs[p].bookingId].car].totalCarsAvailable
          = totalUnits[bookings[procs[p].bookingId].car]

\* C28: an update of a cancelled booking to confirmed while the car's
\* totalCarsAvailable is 0 fails with FullyBooked; the booking is still stored
\* as cancelled and the car's totalCarsAvailable and isAvailable are as before.
C28_ReconfirmNeedsUnit ==
  /\ [][\A p \in Procs :
          (/\ procs[p].pc = "idle" /\ procs'[p].op = "updateBooking"
           /\ procs'[p].status = "confirmed"
           /\ procs'[p].bookingId \in DOMAIN bookings
           /\ bookings[procs'[p].bookingId].bookingStatus = "cancelled")
             => /\ procs'[p].pc = "confirmFindCar"
                /\ bookings' = bookings /\ cars' = cars]_vars
  /\ [][\A p \in Procs :
          (/\ procs[p].op = "updateBooking" /\ procs[p].pc = "confirmFindCar"
           /\ cars[procs[p].carId].totalCarsAvailable = 0)
             => /\ procs'[p].pc = "done" /\ procs'[p].result = FullyBooked
                /\ bookings' = bookings /\ cars' = cars]_vars
  /\ [](\A p \in Procs :
          (/\ procs[p].op = "updateBooking" /\ procs[p].pc = "done"
           /\ procs[p].result = FullyBooked)
             => /\ bookings[procs[p].bookingId].bookingStatus = "cancelled"
                /\ cars[procs[p].carId].totalCarsAvailable = 0
                /\ cars[procs[p].carId].totalCarsAvailable = procs[p].avail0)
\* another booking took the one unit: the re-confirmation has failed, the
\* booking is cancelled, the car is booked out
C28_Witness ==
  \E p \in Procs :
     /\ procs[p].op = "updateBooking" /\ procs[p].pc = "done"
     /\ procs[p].result = FullyBooked
     /\ procs[p].status = "confirmed"
     /\ bookings[procs[p].bookingId].bookingStatus = "cancelled"
     /\ cars[procs[p].carId].totalCarsAvailable = 0
     /\ ~cars[procs[p].carId].isAvailable
     /\ \E b \in DOMAIN bookings :
          /\ b # procs[p].bookingId
          /\ bookings[b].car = procs[p].carId
          /\ bookings[b].bookingStatus = "confirmed"

\* C29: an update to completed of a booking that is pending, confirmed or
\* cancelled leaves every car's totalCarsAvailable and isAvailable unchanged:
\* no step of the request changes a car, and when it has succeeded the booking
\* is stored completed with the car's counter as the request found it.
C29_CompleteKeepsInventory ==
  /\ [][\A p \in Procs :
          (/\ procs'[p].op = "updateBooking" /\ procs'[p].status = "completed"
           /\ procs'[p].bookingId \in DOMAIN bookings
           /\ procs'[p].oldStatus # "completed")
             => cars' = cars]_vars
  /\ [](\A p \in Procs :
          (/\ Succeeded(p) /\ procs[p].op = "updateBooking"
           /\ procs[p].status = "completed")
             => /\ bookings[procs[p].bookingId].bookingStatus = "completed"
                /\ cars[procs[p].carId].totalCarsAvailable = procs[p].avail0)
\* a confirmed booking has been completed; its unit is still out
C29_Witness ==
  \E p \in Procs :
     /\ Succeeded(p) /\ procs[p].op = "updateBooking"
     /\ procs[p].status = "completed" /\ procs[p].oldStatus = "confirmed"
     /\ bookings[procs[p].bookingId].bookingStatus = "completed"
     /\ cars[procs[p].carId].totalCarsAvailable = procs[p].avail0
     /\ cars[procs[p].carId].totalCarsAvailable < totalUnits[procs[p].carId]

\* C30: an update to cancelled of a booking that is not cancelled gives one
\* unit back as a cancel does (totalCarsAvailable 1 above the value found,
\* isAvailable true) and stores the reason of the request or, when the request
\* has none, the placeholder AdminReason, which is not empty; so every booking
\* stored as cancelled has a non-empty cancellationReason.
C30_CancelledHasReason ==
  /\ \A b \in DOMAIN bookings :
        bookings[b].bookingStatus = "cancelled" => bookings[b].cancellationReason # ""
  /\ \A p \in Procs :
        (/\ Succeeded(p) /\ procs[p].op = "updateBooking"
         /\ procs[p].status = "cancelled" /\ procs[p].oldStatus # "cancelled")
           => /\ bookings[procs[p].bookingId].bookingStatus = "cancelled"
              /\ bookings[procs[p].bookingId].cancellationReason =
                   (IF procs[p].reason # "" THEN procs[p].reason ELSE AdminReason)
              /\ cars[procs[p].carId].totalCarsAvailable = procs[p].avail0 + 1
              /\ cars[procs[p].carId].isAvailable
\* an update to cancelled without a reason has given the one unit of a
\* booked-out car back and has stored the placeholder
C30_Witness ==
  \E p \in Procs :
     /\ Succeeded(p) /\ procs[p].op = "updateBooking"
     /\ procs[p].status = "cancelled" /\ procs[p].oldStatus = "confirmed"
     /\ procs[p].reason = ""
     /\ bookings[procs[p].bookingId].bookingStatus = "cancelled"
     /\ bookings[procs[p].bookingId].cancellationReason = AdminReason
     /\ procs[p].avail0 = 0
     /\ cars[procs[p].carId].totalCarsAvailable = 1
     /\ cars[procs[p].carId].isAvailable

\* C31: an update whose status is none of pending, confirmed, cancelled,
\* completed fails with InvalidStatus (with StatusRequired when no status is
\* given), an update with a valid status of a booking that does not exist
\* fails with NotFound, and in both cases no booking and no car changes.
C31_InvalidUpdateChangesNothing ==
  /\ [][\A p \in Procs :
          (/\ procs[p].pc = "idle" /\ procs'[p].op = "updateBooking"
           /\ procs'[p].status \notin validStatuses)
             => /\ procs'[p].pc = "done"
                /\ procs'[p].result =
                     (IF procs'[p].status = "" THEN StatusRequired ELSE InvalidStatus)
                /\ bookings' = bookings /\ cars' = cars]_vars
  /\ [][\A p \in Procs :
          (/\ procs[p].pc = "idle" /\ procs'[p].op = "updateBooking"
           /\ procs'[p].status \in validStatuses
           /\ procs'[p].bookingId \notin DOMAIN bookings)
             => /\ procs'[p].pc = "done" /\ procs'[p].result = NotFound
                /\ bookings' = bookings /\ cars' = cars]_vars
  /\ [](\A b \in DOMAIN bookings : bookings[b].bookingStatus \in validStatuses)
\* an update of an existing, confirmed booking to an unknown status has failed
C31_Witness ==
  \E p \in Procs :
     /\ procs[p].op = "updateBooking" /\ procs[p].pc = "done"
     /\ procs[p].result = InvalidStatus
     /\ procs[p].status = "archived"
     /\ procs[p].bookingId \in DOMAIN bookings
     /\ bookings[procs[p].bookingId].bookingStatus = "confirmed"

\* the request has come to an end after calling a send function
Notified(p) == procs[p].pc = "done" /\ procs[p].sent # <<>>

\* C32: a create, cancel or update that has sent a notification has the same
\* outcome whether the notification was delivered or not: the answer is
\* success, the booking is stored in the status the request gave it and the
\* car's totalCarsAvailable is the value found plus the change of the request.
C32_NotificationIsolated ==
  \A p \in Procs :
     Notified(p) =>
        /\ procs[p].result = "success"
        /\ procs[p].bookingId \in DOMAIN bookings
        /\ bookings[procs[p].bookingId].bookingStatus =
              (IF procs[p].op = "createBooking" THEN "confirmed"
               ELSE IF procs[p].op = "cancelBooking" THEN "cancelled"
               ELSE procs[p].status)
        /\ cars[procs[p].carId].totalCarsAvailable = procs[p].avail0 + Delta(p)
\* the confirmation of a create was not delivered: the booking is stored, the
\* unit is taken, the answer is success
C32_Witness ==
  \E p \in Procs :
     /\ Notified(p) /\ procs[p].op = "createBooking"
     /\ ~procs[p].sent[1].delivered /\ procs[p].sent[1].to # NoUser
     /\ procs[p].result = "success"
     /\ bookings[procs[p].bookingId].bookingStatus = "confirmed"
     /\ cars[procs[p].carId].totalCarsAvailable = procs[p].avail0 - 1

\* C33: no step of a create, cancel or update removes a booking or changes
\* the user or the car of a booking: every booking ever inserted is still
\* stored, with the user and car ids it was inserted with.
C33_BookingsKept ==
  [][\A b \in DOMAIN bookings :
        /\ b \in DOMAIN bookings'
        /\ bookings'[b].user = bookings[b].user
        /\ bookings'[b].car = bookings[b].car]_vars
\* a booking of u1 was cancelled and has then been completed, a later booking
\* was inserted: both are stored
C33_Witness ==
  \E p \in Procs :
     /\ Succeeded(p) /\ procs[p].op = "updateBooking"
     /\ procs[p].oldStatus = "cancelled" /\ procs[p].status = "completed"
     /\ procs[p].bookingId = 1
     /\ Len(bookings) = MaxBookings
     /\ bookings[1].user = "u1" /\ bookings[1].car = procs[p].carId
     /\ bookings[1].cancellationReason # ""

\* C34: an update of a cancelled booking to confirmed looks at the car's
\* totalCarsAvailable only: whenever it is above 0 the request goes on and
\* succeeds, also when a pending or confirmed booking of the same car overlaps
\* the window of the booking that is confirmed again.
C34_ReconfirmChecksCounterOnly ==
  /\ [][\A p \in Procs :
          (/\ procs[p].op = "updateBooking" /\ procs[p].pc = "confirmFindCar"
           /\ cars[procs[p].carId].totalCarsAvailable > 0)
             => procs'[p].pc = "confirmSaveCar"]_vars
  /\ [][\A p \in Procs :
          (/\ procs[p].op = "updateBooking"
           /\ procs[p].status = "confirmed" /\ procs[p].oldStatus = "cancelled"
           /\ procs[p].pc \in {"confirmSaveCar", "saveBooking"})
             => /\ procs'[p].pc \in {"saveBooking", "done"}
                /\ procs'[p].pc = "done" =>
                      /\ procs'[p].result = "success"
                      /\ bookings'[procs[p].bookingId].bookingStatus = "confirmed"]_vars
\* a cancelled booking has been confirmed again although a confirmed booking
\* of the same car has an overlapping window
C34_Witness ==
  \E p \in Procs :
     /\ Succeeded(p) /\ procs[p].op = "updateBooking"
     /\ procs[p].status = "confirmed" /\ procs[p].oldStatus = "cancelled"
     /\ bookings[procs[p].bookingId].bookingStatus = "confirmed"
     /\ \E b \in ActiveOn(procs[p].carId) :
          b # procs[p].bookingId /\ Overlap(b, procs[p].bookingId)

\* C35: an update reaches the handler only for an actor with the admin role,
\* and a cancel goes past its checks only for the requester of the booking or
\* an admin: no step of a cancel or update request of any other actor
\* changes a booking or a car.
C35_OnlyAuthorizedActorsChange ==
  /\ [](\A p \in Procs :
          (procs[p].op = "updateBooking" /\ (InFlight(p) \/ Succeeded(p)))
             => procs[p].actor.role = "admin")
  /\ [](\A p \in Procs :
          (procs[p].op = "cancelBooking" /\ (InFlight(p) \/ Succeeded(p)))
             => MayCancel(procs[p].actor, procs[p].bookingId))
  /\ [][\A p \in Procs :
          (/\ procs'[p] # procs[p]
           /\ procs'[p].op \in {"updateBooking", "cancelBooking"}
           /\ procs'[p].actor.role # "admin"
           /\ \/ procs'[p].op = "updateBooking"
              \/ procs'[p].bookingId \notin DOMAIN bookings
              \/ bookings[procs'[p].bookingId].user # procs'[p].actor.id)
             => (bookings' = bookings /\ cars' = cars)]_vars
\* a user's update of a confirmed booking has been refused by the route
C35_Witness ==
  \E p \in Procs :
     /\ procs[p].op = "updateBooking" /\ procs[p].pc = "done"
     /\ procs[p].actor.role = "user"
     /\ procs[p].result = PermissionDenied
     /\ procs[p].status = "cancelled"
     /\ procs[p].bookingId \in DOMAIN bookings
     /\ bookings[procs[p].bookingId].bookingStatus = "confirmed"

\* the change from old to st is one of the two transitions that move a unit
MovesUnit(st, old) ==
  \/ st = "cancelled" /\ old # "cancelled"
  \/ st = "confirmed" /\ old = "cancelled"

\* C36: an update changes a car's totalCarsAvailable only on a transition
\* into cancelled from another status (+1) and on cancelled -> confirmed (-1);
\* no step of any other update (into pending, also from cancelled; pending
\* <-> confirmed; into completed; to the status the booking has) changes the
\* counter or the flag of a car.
C36_OnlyTwoTransitionsMoveUnits ==
  /\ [](\A p \in Procs :
          (Succeeded(p) /\ procs[p].op = "updateBooking")
             => cars[procs[p].carId].totalCarsAvailable =
                  procs[p].avail0
                  + (IF procs[p].status = "cancelled" /\ procs[p].oldStatus # "cancelled"
                       THEN 1
                     ELSE IF procs[p].status = "confirmed" /\ procs[p].oldStatus = "cancelled"
                       THEN -1 ELSE 0))
  /\ [][\A p \in Procs :
          (/\ procs'[p] # procs[p]
           /\ procs'[p].op = "updateBooking"
           /\ ~MovesUnit(procs'[p].status, procs'[p].oldStatus))
             => cars' = cars]_vars
\* a cancelled booking has been set to pending: the unit it gave back on its
\* cancellation is not taken again
C36_Witness ==
  \E p \in Procs :
     /\ Succeeded(p) /\ procs[p].op = "updateBooking"
     /\ procs[p].status = "pending" /\ procs[p].oldStatus = "cancelled"
     /\ bookings[procs[p].bookingId].bookingStatus = "pending"
     /\ cars[procs[p].carId].totalCarsAvailable = procs[p].avail0
     /\ cars[procs[p].carId].totalCarsAvailable = totalUnits[procs[p].carId]

\* C37: no step of a create, cancel or update on a booking of car R changes
\* the totalCarsAvailable or isAvailable of a car other than R, or any field
\* (status, reason, price among them) of a booking other than its own.
C37_OtherCarsAndBookingsUntouched ==
  [][\A p \in Procs :
        (/\ procs'[p] # procs[p]
         /\ procs[p].op \in {"createBooking", "cancelBooking", "updateBooking"})
           => /\ \A c \in DOMAIN cars : c # procs[p].carId => cars'[c] = cars[c]
              /\ \A b \in DOMAIN bookings :
                    b # procs[p].bookingId => bookings'[b] = bookings[b]]_vars
\* a booking of car1 has been cancelled while car2 is booked out by another
\* booking: car2 and its booking are as they were
C37_Witness ==
  \E p \in Procs :
     /\ Succeeded(p) /\ procs[p].op = "cancelBooking"
     /\ procs[p].carId = "car1"
     /\ cars["car1"].totalCarsAvailable = procs[p].avail0 + 1
     /\ cars["car2"].totalCarsAvailable = 0 /\ ~cars["car2"].isAvailable
     /\ \E b \in DOMAIN bookings :
          /\ b # procs[p].bookingId
          /\ bookings[b].car = "car2" /\ bookings[b].bookingStatus = "confirmed"

\* the status a notification of the given kind reports
Reported(kind) ==
  IF kind = "confirmation" THEN "confirmed"
  ELSE IF kind = "cancellation" THEN "cancelled"
  ELSE "completed"

\* C38: a notification is sent only after the change it reports is stored:
\* whenever a request has called a send function for a booking, the booking
\* is stored with the status that notification reports.
C38_NotifyAfterPersist ==
  \A p \in Procs : \A i \in DOMAIN procs[p].sent :
     /\ procs[p].sent[i].booking \in DOMAIN bookings
     /\ bookings[procs[p].sent[i].booking].bookingStatus
          = Reported(procs[p].sent[i].kind)

\* C39: a request that has succeeded has called a send function at most
\* once: a create once, a cancel once, an update to confirmed, cancelled or
\* completed once and an update to pending not at all.
C39_OneNotification ==
  \A p \in Procs :
     Succeeded(p) =>
        Len(procs[p].sent) =
          (IF procs[p].op = "updateBooking" /\ procs[p].status = "pending"
             THEN 0 ELSE 1)

====
